---- MODULE Spec2Model ----
(***************************************************************************)
(* The connection handshake of p2p/src/io/handshake.rs: the initiator      *)
(* (Handshake) and the responder (AcceptHandshake) futures, driven by      *)
(* poll, over a duplex pipe of framed messages.                            *)
(***************************************************************************)
EXTENDS Integers, Sequences, FiniteSets, TLC

\* ------------------------------------------------------------- bounds
\* protocol version numbers are 0..MaxVersion
MaxVersion == 2
\* a direction of the pipe buffers 1..PipeCap messages before a write would block
PipeCap == 2
\* messages the environment may put on the wire in place of the peer's
MaxInject == 2
\* transient I/O errors the transport may report
MaxFaults == 1

\* ------------------------------------------------------------- data
Magics == {"Mainnet", "Testnet"}

VersionNumbers == 0..MaxVersion

\* the nonce of a Version stands for its metadata, opaque to the handshake:
\* the initiator's own, the responder's own, and a foreign peer's
Nonces == {"initiator", "responder", "foreign"}

\* net::messages::Version: the protocol version number and the peer's metadata
Versions == [version : VersionNumbers, nonce : Nonces]

\* Version::version()
version_of(v) == v.version

\* Option<T>: None is <<>>, Some(x) is <<x>>
None == <<>>

Some(x) == <<x>>

\* Option::take().expect(..) succeeds exactly on Some
IsSome(o) == Len(o) = 1

\* Payload::Version(version), Payload::Verack, and any other payload kind
PayloadVersion(v) == [kind |-> "version", version |-> Some(v)]

PayloadVerack == [kind |-> "verack", version |-> None]

PayloadOther == [kind |-> "other", version |-> None]

Payloads == {PayloadVersion(v) : v \in Versions} \cup {PayloadVerack, PayloadOther}

\* Message::new(magic, payload)
Message_new(magic, payload) == [magic |-> magic, payload |-> payload]

Messages == {Message_new(m, p) : m \in Magics, p \in Payloads}

NoMessage == [magic |-> "none", payload |-> [kind |-> "none", version |-> None]]

\* a version announcement tagged for the main network whatever the magic
version_message_mainnet(magic, version) == Message_new("Mainnet", PayloadVersion(version))

version_message(magic, version) == Message_new(magic, PayloadVersion(version))

\* an acknowledgment built with the wrong payload
verack_message_other(magic) == Message_new(magic, PayloadOther)

verack_message(magic) == Message_new(magic, PayloadVerack)

\* cmp::min
Min(a, b) == IF a <= b THEN a ELSE b

\* a negotiation that takes the higher of the two versions
negotiate_version_max(local, other) == [ok |-> TRUE, value |-> IF local <= other THEN other ELSE local]

\* Result<u32, Error>: Ok(cmp::min(local, other))
negotiate_version(local, other) == [ok |-> TRUE, value |-> Min(local, other)]

HandshakeResult(version, negotiated_version) ==
    [version |-> version, negotiated_version |-> negotiated_version]

\* ------------------------------------------------- the in-flight operation
\* WriteMessage<A> / ReadMessage<A>: the one operation that holds the stream.
\* id numbers the operations a machine has issued; done is set once the
\* operation has given the stream up (it completed, or it failed on a message
\* it had already taken off the wire).
write_message(id, message) ==
    [kind |-> "write", id |-> id, magic |-> message.magic, msg |-> message, done |-> FALSE]

read_message(id, magic) ==
    [kind |-> "read", id |-> id, magic |-> magic, msg |-> NoMessage, done |-> FALSE]

NoFuture == [kind |-> "none", id |-> 0, magic |-> "none", msg |-> NoMessage, done |-> TRUE]

\* what the transport does to one poll of an operation: nothing, an I/O error
\* after which the transfer can be tried again, or one that ends the operation
FaultKinds == {"transient", "fatal"}

\* future.poll(): rd is the direction the machine reads from, wr the one it
\* writes to, cap the messages a direction buffers; fault is what the
\* transport does to this poll.
\*   - an operation polled after it is done panics;
\*   - an I/O error is returned; after a transient one the operation is as it
\*     was and a later poll tries the transfer again, a fatal one ends it;
\*   - a write completes when the pipe takes the whole message;
\*   - a read completes when a whole message has arrived; a message tagged
\*     with another magic is taken off the wire and fails the read.
Future_poll(f, rd, wr, cap, fault) ==
    IF f.done
    THEN [poll |-> "Panic", err |-> "none", f |-> f, rd |-> rd, wr |-> wr, msg |-> NoMessage]
    ELSE IF fault \in FaultKinds
    THEN [poll |-> "Err", err |-> "IoError", f |-> [f EXCEPT !.done = (fault = "fatal")],
          rd |-> rd, wr |-> wr, msg |-> NoMessage]
    ELSE IF f.kind = "write"
    THEN IF Len(wr) < cap
         THEN [poll |-> "Ready", err |-> "none", f |-> [f EXCEPT !.done = TRUE],
               rd |-> rd, wr |-> Append(wr, f.msg), msg |-> f.msg]
         ELSE [poll |-> "NotReady", err |-> "none", f |-> f, rd |-> rd, wr |-> wr, msg |-> NoMessage]
    ELSE IF rd = <<>>
    THEN [poll |-> "NotReady", err |-> "none", f |-> f, rd |-> rd, wr |-> wr, msg |-> NoMessage]
    ELSE IF Head(rd).magic # f.magic
    THEN [poll |-> "Err", err |-> "InvalidMagic", f |-> [f EXCEPT !.done = TRUE],
          rd |-> Tail(rd), wr |-> wr, msg |-> NoMessage]
    ELSE [poll |-> "Ready", err |-> "none", f |-> [f EXCEPT !.done = TRUE],
          rd |-> Tail(rd), wr |-> wr, msg |-> Head(rd)]

\* ------------------------------------------------------------- machines
HandshakeStates == <<"SendVersion", "ReceiveVersion", "ReceiveVerack", "Finished">>

AcceptHandshakeStates == <<"ReceiveVersion", "SendVersion", "SendVerack", "Finished">>

\* a holder of the stream A: the operation it was moved into
Operation(id) == [holder |-> "operation", id |-> id]

\* a holder of the stream A: the caller, who gets it in Ready((stream, result))
Caller == [holder |-> "caller", id |-> 0]

\* what one machine has done so far: operations issued, payloads read,
\* messages written, the steps self.state has held, the results and the
\* errors its polls have returned, and who holds the stream (the first
\* operation, at construction)
NewLog(state) ==
    [issued |-> 1, reads |-> <<>>, writes |-> <<>>, hist |-> <<state>>,
     results |-> <<>>, errors |-> <<>>, stream |-> {Operation(1)}]

\* Poll<(A, HandshakeResult), Error>, and a panic
Ret(kind, err, result) == [kind |-> kind, err |-> err, result |-> result]

NotPolled == Ret("None", "none", None)

NotReady == Ret("NotReady", "none", None)

Panic == Ret("Panic", "none", None)

\* the panic of .take().expect(...) on a None
ExpectFailed == Ret("Panic", "expect", None)

Err(e) == Ret("Err", e, None)

Ready(result) == Ret("Ready", "none", Some(result))

\* a handshake that waits for the peer's version before it sends its own
handshake_reads_first(magic, version) ==
    [version |-> version_of(version),
     state |-> "ReceiveVersion",
     state_version |-> None,
     future |-> read_message(1, magic),
     magic |-> magic]

\* pub fn handshake(a, magic, version)
handshake(magic, version) ==
    [version |-> version_of(version),
     state |-> "SendVersion",
     state_version |-> None,
     future |-> write_message(1, version_message(magic, version)),
     magic |-> magic]

\* an accept_handshake that does not keep its local version number
accept_handshake_zero(magic, version) ==
    [version |-> 0,
     state |-> "ReceiveVersion",
     local_version |-> Some(version),
     state_version |-> None,
     future |-> read_message(1, magic),
     magic |-> magic]

\* a responder built as the initiator is: it announces itself at construction
accept_handshake_writes_first(magic, version) ==
    [version |-> version_of(version),
     state |-> "SendVersion",
     local_version |-> Some(version),
     state_version |-> None,
     future |-> write_message(1, version_message(magic, version)),
     magic |-> magic]

\* a responder that reads and writes with the main network's magic whatever
\* magic it was given
accept_handshake_mainnet(magic, version) ==
    [version |-> version_of(version),
     state |-> "ReceiveVersion",
     local_version |-> Some(version),
     state_version |-> None,
     future |-> read_message(1, "Mainnet"),
     magic |-> "Mainnet"]

\* pub fn accept_handshake(a, magic, version)
accept_handshake(magic, version) ==
    [version |-> version_of(version),
     state |-> "ReceiveVersion",
     local_version |-> Some(version),
     state_version |-> None,
     future |-> read_message(1, magic),
     magic |-> magic]

\* the operation is moved out of the state to be polled, and is not put back
\* when it is not ready
AfterIo_moved(c, p) ==
    [c EXCEPT !.self.future = IF p.poll = "NotReady" THEN [p.f EXCEPT !.done = TRUE] ELSE p.f,
              !.rd = p.rd, !.wr = p.wr,
              !.fault = IF @ > 0 THEN @ - 1 ELSE 0,
              !.log.reads = IF p.poll = "Ready" /\ p.f.kind = "read"
                            THEN Append(@, p.msg.payload) ELSE @,
              !.log.writes = IF p.poll = "Ready" /\ p.f.kind = "write"
                             THEN Append(@, p.msg) ELSE @,
              !.log.stream = IF p.poll = "Ready" THEN @ \ {Operation(p.f.id)} ELSE @]

\* the stream stays with the completed operation as well as going on to the
\* next holder
AfterIo_shared(c, p) ==
    [c EXCEPT !.self.future = p.f, !.rd = p.rd, !.wr = p.wr,
              !.fault = IF @ > 0 THEN @ - 1 ELSE 0,
              !.log.reads = IF p.poll = "Ready" /\ p.f.kind = "read"
                            THEN Append(@, p.msg.payload) ELSE @,
              !.log.writes = IF p.poll = "Ready" /\ p.f.kind = "write"
                             THEN Append(@, p.msg) ELSE @]

\* the operation's poll as the machine sees it: the operation, the pipe and
\* the log after it; a Ready operation hands the stream back: let (stream, _)
AfterIo(c, p) ==
    [c EXCEPT !.self.future = p.f, !.rd = p.rd, !.wr = p.wr,
              !.fault = IF @ > 0 THEN @ - 1 ELSE 0,
              !.log.reads = IF p.poll = "Ready" /\ p.f.kind = "read"
                            THEN Append(@, p.msg.payload) ELSE @,
              !.log.writes = IF p.poll = "Ready" /\ p.f.kind = "write"
                             THEN Append(@, p.msg) ELSE @,
              !.log.stream = IF p.poll = "Ready" THEN @ \ {Operation(p.f.id)} ELSE @]

\* try_ready!(future.poll()) when the operation is not Ready: NotReady and
\* the error are returned as they are
TryReady(p) ==
    IF p.poll = "NotReady" THEN NotReady
    ELSE IF p.poll = "Err" THEN Err(p.err)
    ELSE Panic

\* a return out of the match: self.state is not assigned
Return(c, ret) ==
    [c |-> [c EXCEPT !.log.errors = IF ret.kind = "Err"
                                    THEN Append(@, [step |-> c.self.state, err |-> ret.err])
                                    ELSE @],
     ret |-> ret, again |-> FALSE]

\* the result is returned from inside the final arm, before self.state = next
Install_stale(c, state, state_version, future, result) ==
    [c |-> [c EXCEPT !.self.state = IF state = "Finished" THEN @ ELSE state,
                     !.self.state_version = state_version,
                     !.self.future = future,
                     !.log.issued = IF future.kind = "none" THEN @ ELSE @ + 1,
                     !.log.hist = IF state = "Finished" THEN @ ELSE Append(@, state),
                     !.log.results = IF result.kind = "Ready"
                                     THEN Append(@, result.result[1]) ELSE @,
                     !.log.stream = @ \cup {IF future.kind = "none" THEN Caller
                                            ELSE Operation(future.id)}],
     ret |-> result, again |-> result.kind = "NotReady"]

\* the next step is installed and NotReady returned, without the poll again
\* that registers the new operation
Install_no_repoll(c, state, state_version, future, result) ==
    [c |-> [c EXCEPT !.self.state = state,
                     !.self.state_version = state_version,
                     !.self.future = future,
                     !.log.issued = IF future.kind = "none" THEN @ ELSE @ + 1,
                     !.log.hist = Append(@, state),
                     !.log.results = IF result.kind = "Ready"
                                     THEN Append(@, result.result[1]) ELSE @,
                     !.log.stream = @ \cup {IF future.kind = "none" THEN Caller
                                            ELSE Operation(future.id)}],
     ret |-> result, again |-> FALSE]

\* the next state is built without the version its predecessor carried
Install_forgetful(c, state, state_version, future, result) ==
    [c |-> [c EXCEPT !.self.state = state,
                     !.self.state_version = None,
                     !.self.future = future,
                     !.log.issued = IF future.kind = "none" THEN @ ELSE @ + 1,
                     !.log.hist = Append(@, state),
                     !.log.results = IF result.kind = "Ready"
                                     THEN Append(@, result.result[1]) ELSE @,
                     !.log.stream = @ \cup {IF future.kind = "none" THEN Caller
                                            ELSE Operation(future.id)}],
     ret |-> result, again |-> result.kind = "NotReady"]

\* self.state = next; match result { NotReady => self.poll(), result => Ok(result) }
Install(c, state, state_version, future, result) ==
    [c |-> [c EXCEPT !.self.state = state,
                     !.self.state_version = state_version,
                     !.self.future = future,
                     !.log.issued = IF future.kind = "none" THEN @ ELSE @ + 1,
                     !.log.hist = Append(@, state),
                     !.log.results = IF result.kind = "Ready"
                                     THEN Append(@, result.result[1]) ELSE @,
                     !.log.stream = @ \cup {IF future.kind = "none" THEN Caller
                                            ELSE Operation(future.id)}],
     ret |-> result, again |-> result.kind = "NotReady"]

\* a version check that lets an acknowledgment through
IsVersion_lenient(payload) == payload.kind # "other"

\* match message.payload { Payload::Version(version) => version, _ => return Err(..) }
IsVersion(payload) == payload.kind = "version"

\* an acknowledgment check that lets a version announcement through
IsVerack_lenient(payload) == payload.kind # "other"

\* message.payload != Payload::Verack is the failure
IsVerack(payload) == payload = PayloadVerack

\* the final arm of both machines: take the captured version, negotiate, finish
Finish(c, io) ==
    IF ~IsSome(c.self.state_version)
    THEN Return(io, ExpectFailed)
    ELSE LET version == c.self.state_version[1]
             taken == [io EXCEPT !.self.state_version = None]
             n == negotiate_version(c.self.version, version_of(version))
         IN IF ~n.ok
            THEN Return(taken, Err("NegotiationFailed"))
            ELSE Install(taken, "Finished", None, NoFuture,
                         Ready(HandshakeResult(version, n.value)))

\* a Handshake::poll whose ReceiveVersion arm installs ReceiveVersion again
Handshake_match_again(c) ==
    LET self == c.self
        p == Future_poll(self.future, c.rd, c.wr, c.cap,
                         IF c.fault = 1 THEN c.kind ELSE "none")
        io == AfterIo(c, p)
        id == c.log.issued + 1
    IN IF self.state = "Finished" THEN Return(c, Panic)
       ELSE IF p.poll # "Ready" THEN Return(io, TryReady(p))
       ELSE IF self.state = "SendVersion"
       THEN Install(io, "ReceiveVersion", None, read_message(id, self.magic), NotReady)
       ELSE IF self.state = "ReceiveVersion" /\ ~IsSome(self.state_version)
       THEN IF ~IsVersion(p.msg.payload)
            THEN Return(io, Err("HandshakeFailed"))
            ELSE Install(io, "ReceiveVersion", p.msg.payload.version,
                         read_message(id, self.magic), NotReady)
       ELSE IF ~IsVerack(p.msg.payload)
            THEN Return(io, Err("HandshakeFailed"))
            ELSE Finish(c, io)

\* a Handshake::poll that finishes on the peer's version, without waiting for
\* the acknowledgment
Handshake_match_no_verack(c) ==
    LET self == c.self
        p == Future_poll(self.future, c.rd, c.wr, c.cap,
                         IF c.fault = 1 THEN c.kind ELSE "none")
        io == AfterIo(c, p)
        id == c.log.issued + 1
    IN IF self.state = "Finished" THEN Return(c, Panic)
       ELSE IF p.poll # "Ready" THEN Return(io, TryReady(p))
       ELSE IF self.state = "SendVersion"
       THEN Install(io, "ReceiveVersion", None, read_message(id, self.magic), NotReady)
       ELSE IF ~IsVersion(p.msg.payload)
            THEN Return(io, Err("HandshakeFailed"))
            ELSE Finish([c EXCEPT !.self.state_version = p.msg.payload.version],
                        [io EXCEPT !.self.state_version = p.msg.payload.version])

\* Handshake::poll, one pass of `match self.state`
Handshake_match(c) ==
    LET self == c.self
        p == Future_poll(self.future, c.rd, c.wr, c.cap,
                         IF c.fault = 1 THEN c.kind ELSE "none")
        io == AfterIo(c, p)
        id == c.log.issued + 1
    IN IF self.state = "Finished" THEN Return(c, Panic)
       ELSE IF p.poll # "Ready" THEN Return(io, TryReady(p))
       ELSE IF self.state = "SendVersion"
       THEN Install(io, "ReceiveVersion", None, read_message(id, self.magic), NotReady)
       ELSE IF self.state = "ReceiveVersion"
       THEN IF ~IsVersion(p.msg.payload)
            THEN Return(io, Err("HandshakeFailed"))
            ELSE Install(io, "ReceiveVerack", p.msg.payload.version,
                         read_message(id, self.magic), NotReady)
       ELSE IF ~IsVerack(p.msg.payload)
            THEN Return(io, Err("HandshakeFailed"))
            ELSE Finish(c, io)

RECURSIVE Handshake_poll(_)
\* Handshake::poll: the match, then the poll again while a step was installed
\* (the set constructor binds r, the outcome of the match, to its value)
Handshake_poll(c) ==
    CHOOSE out \in {IF r.again THEN Handshake_poll(r.c) ELSE r : r \in {Handshake_match(c)}} : TRUE

\* an AcceptHandshake::poll that finishes once its version is sent, without
\* the acknowledgment
AcceptHandshake_match_no_verack(c) ==
    LET self == c.self
        p == Future_poll(self.future, c.rd, c.wr, c.cap,
                         IF c.fault = 1 THEN c.kind ELSE "none")
        io == AfterIo(c, p)
        id == c.log.issued + 1
    IN IF self.state = "Finished" THEN Return(c, Panic)
       ELSE IF p.poll # "Ready" THEN Return(io, TryReady(p))
       ELSE IF self.state = "ReceiveVersion"
       THEN IF ~IsVersion(p.msg.payload)
            THEN Return(io, Err("HandshakeFailed"))
            ELSE IF ~IsSome(self.local_version)
            THEN Return(io, ExpectFailed)
            ELSE Install([io EXCEPT !.self.local_version = None], "SendVersion",
                         p.msg.payload.version,
                         write_message(id, version_message(self.magic, self.local_version[1])),
                         NotReady)
       ELSE Finish(c, io)

\* AcceptHandshake::poll, one pass of `match self.state`
AcceptHandshake_match(c) ==
    LET self == c.self
        p == Future_poll(self.future, c.rd, c.wr, c.cap,
                         IF c.fault = 1 THEN c.kind ELSE "none")
        io == AfterIo(c, p)
        id == c.log.issued + 1
    IN IF self.state = "Finished" THEN Return(c, Panic)
       ELSE IF p.poll # "Ready" THEN Return(io, TryReady(p))
       ELSE IF self.state = "ReceiveVersion"
       THEN IF ~IsVersion(p.msg.payload)
            THEN Return(io, Err("HandshakeFailed"))
            ELSE IF ~IsSome(self.local_version)
            THEN Return(io, ExpectFailed)
            ELSE Install([io EXCEPT !.self.local_version = None], "SendVersion",
                         p.msg.payload.version,
                         write_message(id, version_message(self.magic, self.local_version[1])),
                         NotReady)
       ELSE IF self.state = "SendVersion"
       THEN Install(io, "SendVerack", self.state_version,
                    write_message(id, verack_message(self.magic)), NotReady)
       ELSE Finish(c, io)

RECURSIVE AcceptHandshake_poll(_)
\* AcceptHandshake::poll: the match, then the poll again while a step was installed
\* (the set constructor binds r, the outcome of the match, to its value)
AcceptHandshake_poll(c) ==
    CHOOSE out \in {IF r.again THEN AcceptHandshake_poll(r.c) ELSE r : r \in {AcceptHandshake_match(c)}} : TRUE

\* ------------------------------------------------------------- state
VARIABLES
    initiator,   \* the Handshake
    responder,   \* the AcceptHandshake
    i2r,         \* the pipe, initiator to responder: messages written, not yet read
    r2i,         \* the pipe, responder to initiator
    outI,        \* what the initiator's last poll returned
    outR,        \* what the responder's last poll returned
    logI,        \* what the initiator has done so far
    logR,        \* what the responder has done so far
    given,       \* which ends there are, what the pipe buffers, and the magic
                 \* and the Version each end has
    injected,    \* messages the environment has put on the wire
    faults,      \* I/O errors the transport has reported
    steps,       \* the steps installed by the call of poll that returned Ready
    dropped      \* the machines the caller has dropped

vars == <<initiator, responder, i2r, r2i, outI, outR, logI, logR, given, injected, faults,
          steps, dropped>>

\* which ends of the pipe are this implementation: both (the initiator talks
\* to the responder), or one of them, which then talks to a foreign peer
Ends == {"both", "initiator", "responder"}

\* the pipe buffers cap messages in each direction, and each end has a magic
\* and a Version of its own. An end that is this
\* implementation is constructed around its end of the empty pipe; a foreign
\* end is never polled: it sends what it likes
Init ==
    \E ends \in Ends, cap \in 1..PipeCap, mi \in Magics, mr \in Magics,
       ni \in VersionNumbers, nr \in VersionNumbers :
        LET vi == [version |-> ni,
                   nonce |-> IF ends = "responder" THEN "foreign" ELSE "initiator"]
            vr == [version |-> nr,
                   nonce |-> IF ends = "initiator" THEN "foreign" ELSE "responder"]
        IN /\ initiator = handshake(mi, vi)
           /\ responder = accept_handshake(mr, vr)
           /\ given = [ends |-> ends, cap |-> cap, mi |-> mi, mr |-> mr, vi |-> vi, vr |-> vr]
           /\ i2r = <<>>
           /\ r2i = <<>>
           /\ outI = NotPolled
           /\ outR = NotPolled
           /\ logI = NewLog("SendVersion")
           /\ logR = NewLog("ReceiveVersion")
           /\ injected = 0
           /\ faults = 0
           /\ steps = [initiator |-> 0, responder |-> 0]
           /\ dropped = {}

\* the operation polls one call of poll can make: one for each step but the last
MaxDepth == Len(HandshakeStates) - 1

\* the caller polls the initiator; fault = k > 0: the k-th operation poll of
\* this call meets an I/O error of the given kind
PollHandshake(fault, kind) ==
    \E r \in {Handshake_poll([self |-> initiator, rd |-> r2i, wr |-> i2r,
                            log |-> logI, cap |-> given.cap, fault |-> fault, kind |-> kind])} :
       /\ given.ends \in {"both", "initiator"}
       /\ "initiator" \notin dropped
       /\ fault = 0 => kind = "transient"
       /\ fault > 0 => faults < MaxFaults /\ r.ret.err = "IoError"
       /\ initiator' = r.c.self
       /\ r2i' = r.c.rd
       /\ i2r' = r.c.wr
       /\ logI' = r.c.log
       /\ outI' = r.ret
       /\ faults' = IF fault > 0 THEN faults + 1 ELSE faults
       /\ steps' = [steps EXCEPT !.initiator = IF r.ret.kind = "Ready"
                                              THEN Len(r.c.log.hist) - Len(logI.hist)
                                              ELSE @]
       /\ UNCHANGED <<responder, outR, logR, given, injected, dropped>>

\* the caller polls the responder
PollAcceptHandshake(fault, kind) ==
    \E r \in {AcceptHandshake_poll([self |-> responder, rd |-> i2r, wr |-> r2i,
                                  log |-> logR, cap |-> given.cap, fault |-> fault, kind |-> kind])} :
       /\ given.ends \in {"both", "responder"}
       /\ "responder" \notin dropped
       /\ fault = 0 => kind = "transient"
       /\ fault > 0 => faults < MaxFaults /\ r.ret.err = "IoError"
       /\ responder' = r.c.self
       /\ i2r' = r.c.rd
       /\ r2i' = r.c.wr
       /\ logR' = r.c.log
       /\ outR' = r.ret
       /\ faults' = IF fault > 0 THEN faults + 1 ELSE faults
       /\ steps' = [steps EXCEPT !.responder = IF r.ret.kind = "Ready"
                                              THEN Len(r.c.log.hist) - Len(logR.hist)
                                              ELSE @]
       /\ UNCHANGED <<initiator, outI, logI, given, injected, dropped>>

\* a drop that leaves the stream with the operation of the dropped machine
DropHandshake_leak ==
    /\ given.ends \in {"both", "initiator"}
    /\ "initiator" \notin dropped
    /\ initiator.state # "Finished"
    /\ dropped' = dropped \cup {"initiator"}
    /\ UNCHANGED <<initiator, responder, i2r, r2i, outI, outR, logI, logR, given, injected,
                   faults, steps>>

\* the caller drops the initiator before it is Finished: the machine is never
\* polled again, and its state, the operation in it and the stream the
\* operation holds are dropped with it
DropHandshake ==
    /\ given.ends \in {"both", "initiator"}
    /\ "initiator" \notin dropped
    /\ initiator.state # "Finished"
    /\ dropped' = dropped \cup {"initiator"}
    /\ logI' = [logI EXCEPT !.stream = {}]
    /\ UNCHANGED <<initiator, responder, i2r, r2i, outI, outR, logR, given, injected,
                   faults, steps>>

\* the caller drops the responder before it is Finished
DropAcceptHandshake ==
    /\ given.ends \in {"both", "responder"}
    /\ "responder" \notin dropped
    /\ responder.state # "Finished"
    /\ dropped' = dropped \cup {"responder"}
    /\ logR' = [logR EXCEPT !.stream = {}]
    /\ UNCHANGED <<initiator, responder, i2r, r2i, outI, outR, logI, given, injected,
                   faults, steps>>

\* what a peer that is not this implementation may send: its version, an
\* acknowledgment or any other message, in any order
ForeignMessages(magic, version) ==
    {Message_new(magic, p) : p \in {PayloadVersion(version), PayloadVerack, PayloadOther}}

\* the foreign peer of the initiator sends a message
InjectToInitiator(msg) ==
    /\ given.ends = "initiator"
    /\ "initiator" \notin dropped
    /\ injected < MaxInject
    /\ Len(r2i) < given.cap
    /\ r2i' = Append(r2i, msg)
    /\ injected' = injected + 1
    /\ UNCHANGED <<initiator, responder, i2r, outI, outR, logI, logR, given, faults, steps,
                   dropped>>

\* the foreign peer of the responder sends a message
InjectToResponder(msg) ==
    /\ given.ends = "responder"
    /\ "responder" \notin dropped
    /\ injected < MaxInject
    /\ Len(i2r) < given.cap
    /\ i2r' = Append(i2r, msg)
    /\ injected' = injected + 1
    /\ UNCHANGED <<initiator, responder, r2i, outI, outR, logI, logR, given, faults, steps,
                   dropped>>

Next ==
    \/ \E fault \in 0..MaxDepth, kind \in FaultKinds : PollHandshake(fault, kind)
    \/ \E fault \in 0..MaxDepth, kind \in FaultKinds : PollAcceptHandshake(fault, kind)
    \/ \E msg \in ForeignMessages(given.mr, given.vr) : InjectToInitiator(msg)
    \/ \E msg \in ForeignMessages(given.mi, given.vi) : InjectToResponder(msg)
    \/ DropHandshake
    \/ DropAcceptHandshake

Spec == Init /\ [][Next]_vars

\* the joint run of C1: both ends are this implementation, with the same
\* magic, over a pipe that loses and adds nothing, and each side is polled
\* again whenever its operation can make progress
InitLive == Init /\ given.ends = "both" /\ given.mi = given.mr

NextLive ==
    \/ PollHandshake(0, "transient")
    \/ PollAcceptHandshake(0, "transient")

LiveSpec ==
    /\ InitLive
    /\ [][NextLive]_vars
    /\ WF_vars(PollHandshake(0, "transient"))
    /\ WF_vars(PollAcceptHandshake(0, "transient"))

\* ------------------------------------------------------------- claims
\* a machine waits on a read that cannot complete
WaitsOnRead(m, rd) == m.future.kind = "read" /\ ~m.future.done /\ rd = <<>>

\* a machine waits on an operation that cannot complete
Blocked(m, rd, wr) ==
    /\ ~m.future.done
    /\ \/ m.future.kind = "read" /\ rd = <<>>
       \/ m.future.kind = "write" /\ Len(wr) >= given.cap

BothFinished ==
    /\ initiator.state = "Finished" /\ Len(logI.results) = 1
    /\ responder.state = "Finished" /\ Len(logR.results) = 1

\* C1: in the joint run over a reliable pipe with one magic and fair polling,
\* the two sides never both wait on a read that cannot complete, and
\* eventually both are Finished and each has returned its HandshakeResult.
C1_Converges ==
    /\ [](~(WaitsOnRead(initiator, r2i) /\ WaitsOnRead(responder, i2r)))
    /\ <>BothFinished

\* C1's case: both sides have returned their results
C1_Witness == BothFinished /\ outI.kind = "Ready" /\ outR.kind = "Ready"

\* C2: when both ends are this implementation and both have completed, both
\* results carry min(vi, vr) as the negotiated version, the initiator's
\* result holds the responder's Version and the responder's the initiator's.
C2_Agreement ==
    (given.ends = "both" /\ logI.results # <<>> /\ logR.results # <<>>) =>
        /\ logI.results[1].negotiated_version = logR.results[1].negotiated_version
        /\ logI.results[1].negotiated_version \in {given.vi.version, given.vr.version}
        /\ logI.results[1].negotiated_version <= given.vi.version
        /\ logI.results[1].negotiated_version <= given.vr.version
        /\ logI.results[1].version = given.vr
        /\ logR.results[1].version = given.vi

\* C2's case: both completed, the initiator with the higher local version
C2_Witness ==
    /\ given.ends = "both" /\ logI.results # <<>> /\ logR.results # <<>>
    /\ given.vi.version > given.vr.version

AllErrors == {logI.errors[i] : i \in DOMAIN logI.errors} \cup {logR.errors[i] : i \in DOMAIN logR.errors}

\* C3: negotiate_version(local, other) is Ok(min(local, other)) for every pair
\* of version numbers: it is never an error, its value is one of the two and
\* above neither; every result a machine returns carries such a value for its
\* local and the remote version, and no poll ends in a negotiation failure.
C3_NegotiateMin ==
    /\ \A local \in VersionNumbers, other \in VersionNumbers :
          LET n == negotiate_version(local, other)
          IN n.ok /\ n.value \in {local, other} /\ n.value <= local /\ n.value <= other
    /\ \A i \in DOMAIN logI.results :
          LET r == logI.results[i]
          IN /\ r.negotiated_version \in {initiator.version, r.version.version}
             /\ r.negotiated_version <= initiator.version
             /\ r.negotiated_version <= r.version.version
    /\ \A i \in DOMAIN logR.results :
          LET r == logR.results[i]
          IN /\ r.negotiated_version \in {responder.version, r.version.version}
             /\ r.negotiated_version <= responder.version
             /\ r.negotiated_version <= r.version.version
    /\ \A e \in AllErrors : e.err # "NegotiationFailed"
    /\ outI.err # "NegotiationFailed" /\ outR.err # "NegotiationFailed"

\* C3's case: a result negotiated below the local version, and one negotiated
\* below the remote version
C3_Witness ==
    /\ logI.results # <<>> /\ logI.results[1].negotiated_version < initiator.version
    /\ logR.results # <<>> /\ logR.results[1].negotiated_version < logR.results[1].version.version

Failed(log, step, err) == \E i \in DOMAIN log.errors : log.errors[i] = [step |-> step, err |-> err]

\* C4: if the first message the initiator reads is not a version announcement
\* (an acknowledgment included), the poll that read it returned
\* Err(HandshakeFailed) at ReceiveVersion, the initiator reads nothing more,
\* and no poll of it has returned or will return a HandshakeResult.
C4_FirstNotVersion ==
    (logI.reads # <<>> /\ logI.reads[1].kind # "version") =>
        /\ Failed(logI, "ReceiveVersion", "HandshakeFailed")
        /\ outI \in {Err("HandshakeFailed"), Panic}
        /\ initiator.state = "ReceiveVersion"
        /\ Len(logI.reads) = 1
        /\ logI.results = <<>>

\* C4's case: the first message read was an acknowledgment, and the initiator
\* has been polled again since
C4_Witness ==
    /\ logI.reads # <<>> /\ logI.reads[1] = PayloadVerack
    /\ outI = Panic

\* C5: if the first message the initiator reads is a version announcement and
\* the second is not an acknowledgment (a second version announcement
\* included), the initiator failed with HandshakeFailed in ReceiveVerack, with
\* the remote Version captured, never with HandshakeFailed in ReceiveVersion,
\* and no poll of it returns a HandshakeResult.
C5_SecondNotVerack ==
    (Len(logI.reads) >= 2 /\ logI.reads[1].kind = "version" /\ logI.reads[2] # PayloadVerack) =>
        /\ Failed(logI, "ReceiveVerack", "HandshakeFailed")
        /\ ~Failed(logI, "ReceiveVersion", "HandshakeFailed")
        /\ outI \in {Err("HandshakeFailed"), Panic}
        /\ initiator.state = "ReceiveVerack"
        /\ initiator.state_version = logI.reads[1].version
        /\ Len(logI.reads) = 2
        /\ logI.results = <<>>

\* C5's case: a second version announcement arrived in place of the
\* acknowledgment
C5_Witness ==
    /\ Len(logI.reads) >= 2 /\ logI.reads[1].kind = "version" /\ logI.reads[2].kind = "version"
    /\ outI = Err("HandshakeFailed")

\* a machine that has returned its result is Finished, and a step leaves it,
\* its operations and its results as they are; a poll of it panics
TerminalStep(m, mNext, log, logNext, out, outNext) ==
    log.results # <<>> =>
        /\ m.state = "Finished"
        /\ mNext = m
        /\ logNext = log
        /\ outNext \in {out, Panic}

\* C6: once a machine has returned Ready((stream, HandshakeResult)) it is
\* Finished; every later poll panics, changes nothing of the machine, issues
\* no read or write and returns no second result.
C6_TerminalRejects ==
    /\ [](logI.results # <<>> => initiator.state = "Finished" /\ Len(logI.results) = 1)
    /\ [](logR.results # <<>> => responder.state = "Finished" /\ Len(logR.results) = 1)
    /\ [][/\ TerminalStep(initiator, initiator', logI, logI', outI, outI')
          /\ TerminalStep(responder, responder', logR, logR', outR, outR')]_vars

\* C6's case: both machines have returned a result and have been polled again
C6_Witness ==
    /\ logI.results # <<>> /\ outI = Panic
    /\ logR.results # <<>> /\ outR = Panic

ReadVersion(log) == \E i \in DOMAIN log.reads : log.reads[i].kind = "version"

ReadVerack(log) == \E i \in DOMAIN log.reads : log.reads[i] = PayloadVerack

WroteVerack(log) == \E i \in DOMAIN log.writes : log.writes[i].payload = PayloadVerack

\* C7 as stated: a machine that has returned a result has read a version
\* announcement and an acknowledgment, and has returned one result at most.
C7_Original ==
    /\ logI.results # <<>> => ReadVersion(logI) /\ ReadVerack(logI)
    /\ logR.results # <<>> => ReadVersion(logR) /\ ReadVerack(logR)
    /\ Len(logI.results) <= 1 /\ Len(logR.results) <= 1

\* C7, amended: each machine returns one result at most; the initiator has
\* then read a version announcement and an acknowledgment; the responder has
\* then read a version announcement and written its own acknowledgment.
C7_ResultOnce ==
    /\ logI.results # <<>> => ReadVersion(logI) /\ ReadVerack(logI)
    /\ logR.results # <<>> => ReadVersion(logR) /\ WroteVerack(logR)
    /\ Len(logI.results) <= 1 /\ Len(logR.results) <= 1

\* C7's case: the responder has returned its result, having read no
\* acknowledgment, and the initiator has returned its own
C7_Witness ==
    /\ logR.results # <<>> /\ ~ReadVerack(logR)
    /\ logI.results # <<>>

\* a machine one of whose polls has returned an error stays in its step,
\* issues no operation, reads and writes nothing and returns no result
StoppedStep(m, mNext, log, logNext) ==
    log.errors # <<>> =>
        /\ mNext.state = m.state
        /\ logNext.issued = log.issued
        /\ logNext.reads = log.reads
        /\ logNext.writes = log.writes
        /\ logNext.results = log.results

\* C8 as stated: a failure of the operation is the error poll returns, and
\* after a poll has returned an error the machine makes no further progress.
C8_Original ==
    [][/\ StoppedStep(initiator, initiator', logI, logI')
       /\ StoppedStep(responder, responder', logR, logR')]_vars

\* C9: a poll of a machine whose operation cannot complete returns NotReady
\* and leaves the machine (step, carried values, operation), what it has done
\* and the pipe as they were, so that the next poll finds what this one found.
C9_NotReadyKeepsState ==
    [][/\ (Blocked(initiator, r2i, i2r) /\ PollHandshake(0, "transient")) =>
            /\ outI' = NotReady
            /\ initiator' = initiator /\ logI' = logI
            /\ r2i' = r2i /\ i2r' = i2r
       /\ (Blocked(responder, i2r, r2i) /\ PollAcceptHandshake(0, "transient")) =>
            /\ outR' = NotReady
            /\ responder' = responder /\ logR' = logR
            /\ r2i' = r2i /\ i2r' = i2r]_vars

\* C9's case: the responder, holding the captured version, was polled while
\* its write of the acknowledgment could not complete, after the initiator
\* had been polled while its read could not
C9_Witness ==
    /\ Blocked(responder, i2r, r2i) /\ outR = NotReady
    /\ responder.state = "SendVerack" /\ IsSome(responder.state_version)
    /\ initiator.state = "ReceiveVersion" /\ outI = NotReady

IsPrefix(h, seq) == Len(h) <= Len(seq) /\ \A i \in DOMAIN h : h[i] = seq[i]

\* C10: the steps self.state has held are the first steps of the machine's
\* fixed sequence, in order, the last of them the current one: no step is
\* skipped or held again, and Finished is never left.
C10_ForwardOnly ==
    /\ IsPrefix(logI.hist, HandshakeStates)
    /\ logI.hist[Len(logI.hist)] = initiator.state
    /\ IsPrefix(logR.hist, AcceptHandshakeStates)
    /\ logR.hist[Len(logR.hist)] = responder.state

\* C10's case: both machines have gone through all their steps
C10_Witness ==
    /\ logI.hist = HandshakeStates
    /\ logR.hist = AcceptHandshakeStates

\* every message the initiator needs is there and its own fits in the pipe
AllReadyForInitiator ==
    /\ initiator.state = "SendVersion" /\ ~initiator.future.done
    /\ Len(i2r) < given.cap
    /\ Len(r2i) >= 2
    /\ r2i[1].magic = initiator.magic /\ r2i[1].payload.kind = "version"
    /\ r2i[2] = verack_message(initiator.magic)

\* the version the responder needs is there and its two messages fit in the pipe
AllReadyForResponder ==
    /\ responder.state = "ReceiveVersion" /\ ~responder.future.done
    /\ i2r # <<>>
    /\ Head(i2r).magic = responder.magic /\ Head(i2r).payload.kind = "version"
    /\ Len(r2i) + 2 <= given.cap

\* C11: a poll goes on through every step whose operation completes: it
\* returns NotReady only with the machine in a step whose operation cannot
\* complete, and when every operation completes at once a single poll takes
\* the initiator from SendVersion, and the responder from ReceiveVersion, to
\* Finished and returns the HandshakeResult.
C11_TraversesAll ==
    [][/\ PollHandshake(0, "transient") =>
            /\ outI' = NotReady => Blocked(initiator', r2i', i2r')
            /\ AllReadyForInitiator =>
                 /\ initiator'.state = "Finished" /\ outI'.kind = "Ready"
                 /\ steps'.initiator = 3
       /\ PollAcceptHandshake(0, "transient") =>
            /\ outR' = NotReady => Blocked(responder', i2r', r2i')
            /\ AllReadyForResponder =>
                 /\ responder'.state = "Finished" /\ outR'.kind = "Ready"
                 /\ steps'.responder = 3]_vars

\* C11's case: the one poll the responder has had installed its three steps
\* and returned the result
C11_Witness ==
    /\ steps.responder = 3 /\ outR.kind = "Ready"
    /\ logR.hist = AcceptHandshakeStates

\* the stream of machine m is with its in-flight operation, with the caller
\* once the machine is Finished, and with nobody once a poll has dropped it
\* on its way out with HandshakeFailed
SingleOwner(m, log) ==
    /\ Cardinality(log.stream) <= 1
    /\ m.state = "Finished" <=> log.stream = {Caller}
    /\ m.state = "Finished" => m.future = NoFuture
    /\ log.stream = {} <=> \E i \in DOMAIN log.errors : log.errors[i].err = "HandshakeFailed"
    /\ m.state # "Finished" /\ log.stream # {} =>
         /\ m.future.kind \in {"read", "write"}
         /\ log.stream = {Operation(m.future.id)}
         /\ m.future.id = log.issued

\* C12 as it is written: in every reachable state exactly one holder has the
\* stream, the in-flight operation or the caller.
C12_Original ==
    /\ "initiator" \notin dropped => Cardinality(logI.stream) = 1
    /\ "responder" \notin dropped => Cardinality(logR.stream) = 1

\* C12: the stream of a machine never has two holders: it is with the one
\* operation of the current step, or with the caller once the machine is
\* Finished (the machine then has no operation), or, after a poll that
\* returned HandshakeFailed, dropped and with nobody.
C12_SingleOwner ==
    /\ "initiator" \notin dropped => SingleOwner(initiator, logI)
    /\ "responder" \notin dropped => SingleOwner(responder, logR)

\* C12's case: the stream has gone through the initiator's three operations
\* and the poll that completed the last one has dropped it
C12_Witness ==
    /\ "initiator" \notin dropped
    /\ logI.issued = 3 /\ initiator.state = "ReceiveVerack"
    /\ logI.stream = {} /\ outI = Err("HandshakeFailed")

\* C13: if the first message the responder reads is not a version
\* announcement, the poll that read it returned Err(HandshakeFailed) at
\* ReceiveVersion and no result is ever returned; the responder issues no
\* write before it has read a version announcement, so a responder that has
\* failed at ReceiveVersion has put nothing on the wire.
C13_ResponderFirstNotVersion ==
    /\ (logR.reads # <<>> /\ logR.reads[1].kind # "version") =>
          /\ Failed(logR, "ReceiveVersion", "HandshakeFailed")
          /\ outR \in {Err("HandshakeFailed"), Panic}
          /\ responder.state = "ReceiveVersion"
          /\ logR.results = <<>>
    /\ (responder.future.kind = "write" \/ logR.writes # <<>>) =>
          logR.reads # <<>> /\ logR.reads[1].kind = "version"
    /\ responder.state = "ReceiveVersion" =>
          /\ logR.writes = <<>> /\ logR.issued = 1
          /\ given.ends = "responder" => r2i = <<>>

\* C13's case: the responder's first message was an acknowledgment, the poll
\* returned HandshakeFailed and nothing has been written
C13_Witness ==
    /\ logR.reads = <<PayloadVerack>>
    /\ outR = Err("HandshakeFailed")
    /\ logR.writes = <<>> /\ r2i = <<>>

\* C14: when the two sides were given different magics neither side ever
\* returns a HandshakeResult: the responder's read of the initiator's version
\* fails with the framing layer's error, which its poll returns as it is and
\* which is not HandshakeFailed; the responder reads no payload and writes
\* nothing, so the initiator stays short of its first read's completion.
C14_MagicMismatch ==
    (given.ends = "both" /\ given.mi # given.mr) =>
        /\ logI.results = <<>> /\ logR.results = <<>>
        /\ responder.state = "ReceiveVersion"
        /\ logR.reads = <<>> /\ logR.writes = <<>> /\ logR.issued = 1 /\ r2i = <<>>
        /\ initiator.state \in {"SendVersion", "ReceiveVersion"}
        /\ \A i \in DOMAIN logR.errors : logR.errors[i].err \in {"InvalidMagic", "IoError"}
        /\ outR.kind = "Err" => outR.err \in {"InvalidMagic", "IoError"}
        /\ (logI.writes # <<>> /\ i2r = <<>>) =>
              Failed(logR, "ReceiveVersion", "InvalidMagic")

\* C14's case: the responder's poll has returned the framing error on the
\* initiator's version, and the initiator waits for a version that never comes
C14_Witness ==
    /\ given.ends = "both" /\ given.mi # given.mr
    /\ outR = Err("InvalidMagic") /\ i2r = <<>>
    /\ initiator.state = "ReceiveVersion" /\ outI = NotReady

\* the payloads of the messages a machine has written
Written(log) == [i \in DOMAIN log.writes |-> log.writes[i].payload]

\* C15: a machine dropped before Finished has yielded no HandshakeResult and
\* never does, and the stream its operation held is released; in a joint run
\* with one side dropped, the other side returns a result only if the dropped
\* side had written every message the other reads (one version announcement
\* for the responder; a version and an acknowledgment for the initiator), and
\* what a side has read is what its peer has written, in order.
C15_Dropped ==
    /\ "initiator" \in dropped =>
          /\ logI.results = <<>> /\ outI.kind # "Ready" /\ initiator.state # "Finished"
          /\ logI.stream = {}
    /\ "responder" \in dropped =>
          /\ logR.results = <<>> /\ outR.kind # "Ready" /\ responder.state # "Finished"
          /\ logR.stream = {}
    /\ given.ends = "both" =>
          /\ IsPrefix(logR.reads, Written(logI))
          /\ IsPrefix(logI.reads, Written(logR))
          /\ ("initiator" \in dropped /\ logR.results # <<>>) => Len(logI.writes) = 1
          /\ ("responder" \in dropped /\ logI.results # <<>>) => Len(logR.writes) = 2

\* C15's case: the initiator was dropped once its version was written, and
\* the responder, which needs no more of it, has returned its result
C15_Witness ==
    /\ given.ends = "both" /\ "initiator" \in dropped
    /\ initiator.state = "ReceiveVersion" /\ logI.stream = {}
    /\ outR.kind = "Ready"

C17_InitiatorLast ==
    (given.ends = "both" /\ initiator.state = "Finished") =>
        /\ logR.reads = <<PayloadVersion(given.vi)>>
        /\ Written(logR) = <<PayloadVersion(given.vr), PayloadVerack>>
        /\ \/ responder.state = "Finished"
           \/ responder.state = "SendVerack" /\ responder.future.done

\* C17's converse case: the responder has returned its result while the
\* initiator has read nothing yet, both of the responder's messages still in
\* the pipe
C17_Witness ==
    /\ given.ends = "both"
    /\ responder.state = "Finished" /\ outR.kind = "Ready" /\ Len(logR.results) = 1
    /\ initiator.state = "ReceiveVersion" /\ logI.reads = <<>>
    /\ Len(r2i) = 2

\* C18: the remote Version captured from the peer's announcement is there
\* whenever a later step needs it: the initiator in ReceiveVerack and the
\* responder in SendVersion and in SendVerack carry Some(version), the version
\* that machine read; the responder in ReceiveVersion has its local_version;
\* and no poll ends in the panic of one of the three expect(...).
C18_VersionPresent ==
    /\ initiator.state = "ReceiveVerack" =>
          /\ IsSome(initiator.state_version)
          /\ PayloadVersion(initiator.state_version[1]) = logI.reads[1]
    /\ responder.state \in {"SendVersion", "SendVerack"} =>
          /\ IsSome(responder.state_version)
          /\ PayloadVersion(responder.state_version[1]) = logR.reads[1]
    /\ responder.state = "ReceiveVersion" => responder.local_version = Some(given.vr)
    /\ outI # ExpectFailed /\ outR # ExpectFailed
    /\ logI.results # <<>> => logI.results[1].version = logI.reads[1].version[1]
    /\ logR.results # <<>> => logR.results[1].version = logR.reads[1].version[1]

\* C18's case: the initiator waits for the acknowledgment and the responder
\* to write it, each carrying the other's Version
C18_Witness ==
    /\ initiator.state = "ReceiveVerack" /\ initiator.state_version = Some(given.vr)
    /\ responder.state = "SendVerack" /\ responder.state_version = Some(given.vi)
    /\ given.vi # given.vr

\* machine m, constructed with this magic and this Version, still has them:
\* the version field is the Version's number, every operation and every
\* message written carries the magic, the announcement written carries the
\* Version, and a result is negotiated from the version field
FixedAtConstruction(m, log, magic, version) ==
    /\ m.version = version_of(version)
    /\ m.magic = magic
    /\ m.future # NoFuture => m.future.magic = magic
    /\ m.future.kind = "write" => m.future.msg.magic = magic
    /\ \A i \in DOMAIN log.writes :
          /\ log.writes[i].magic = magic
          /\ log.writes[i].payload.kind = "version" =>
                /\ log.writes[i].payload = PayloadVersion(version)
                /\ version_of(log.writes[i].payload.version[1]) = m.version
    /\ \A i \in DOMAIN log.results :
          log.results[i].negotiated_version
             = Min(m.version, version_of(log.results[i].version))

\* C19: the version number a machine negotiates with, fixed at construction,
\* is the protocol version of the announcement it writes, on both sides, and
\* no poll changes it; the magic of every read and write is the magic given
\* at construction.
C19_LocalVersionFixed ==
    /\ FixedAtConstruction(initiator, logI, given.mi, given.vi)
    /\ FixedAtConstruction(responder, logR, given.mr, given.vr)

\* C19's case: both machines, of different versions and on the test network,
\* have written their announcements and returned their results
C19_Witness ==
    /\ BothFinished
    /\ given.mi = "Testnet"
    /\ version_of(given.vi) > version_of(given.vr)
    /\ Written(logI) = <<PayloadVersion(given.vi)>>
    /\ Written(logR)[1] = PayloadVersion(given.vr)

====
